---- MODULE Spec2Model ----
(***************************************************************************)
(* A model of generateOverlay.js (src/bot.js lines 130-862): the overlay   *)
(* generator's command line, the metadata probe, the scene (rings, ball,   *)
(* particle pools), the physics step update(dt), the render step draw(ctx) *)
(* and the frame loop sendFrame that streams raw frames to the encoder.    *)
(*                                                                         *)
(* Arithmetic is fixed point.  Lengths are in units of 1/SubPixel pixel,   *)
(* angles in milliradians, times in milliseconds, speeds in length units   *)
(* per second, factors and probabilities in thousandths.  The ball's       *)
(* velocity is held as (speed, dir) with vx = speed*cos(dir) and           *)
(* vy = speed*sin(dir): resetBall and the bounce both assign vx, vy from   *)
(* exactly this form (lines 419-421, 612-620).  Colours and the ball's     *)
(* appearance fields only feed the canvas and are left out.                *)
(***************************************************************************)
EXTENDS Integers, Sequences, FiniteSets, TLC

(* ------------------------------------------------------------------ *)
(* Bounds of the model                                                 *)
(* ------------------------------------------------------------------ *)

\* Longest duration the probe reports, in half seconds.
MaxHalfSeconds == 3

\* Frames of the scene runs explored with every draw.
MaxWideFrames == 3

\* Frames of the scene runs explored with one draw per step.
MaxDeepFrames == 96

\* Bounces in a row explored by the bounce runs.
MaxBounces == 2

\* Sub-steps in a row explored by the sub-step runs.
MaxCollideSteps == 2

\* Video messages the bot handles at the same time.
MaxRequests == 2

\* Frames explored by the particle runs.
MaxParticleFrames == 3

(* ------------------------------------------------------------------ *)
(* Fixed-point arithmetic                                              *)
(* ------------------------------------------------------------------ *)

\* Length units per pixel.
SubPixel == 5

\* Math.PI in milliradians.
Pi == 3142

TwoPi == 2 * Pi

Abs(a) == IF a < 0 THEN -a ELSE a

Min(a, b) == IF a < b THEN a ELSE b

Max(a, b) == IF a > b THEN a ELSE b

\* Division rounding toward zero (the sign follows the dividend).
Div(a, b) == IF a >= 0 THEN a \div b ELSE -((-a) \div b)

\* JavaScript's % : the remainder takes the sign of the dividend.
JsRem(a, b) == IF a >= 0 THEN a % b ELSE -((-a) % b)

\* Math.ceil(n / d) for n >= 0, d > 0.
CeilDiv(n, d) == (n + d - 1) \div d

\* Math.round(n / d) for n >= 0, d > 0 (halves round up).
RoundDiv(n, d) == (2 * n + d) \div (2 * d)

RECURSIVE SqrtBetween(_, _, _)
SqrtBetween(n, lo, hi) ==
  IF lo >= hi THEN lo
  ELSE LET mid == (lo + hi + 1) \div 2
       IN  IF mid * mid <= n THEN SqrtBetween(n, mid, hi)
           ELSE SqrtBetween(n, lo, mid - 1)

\* Math.sqrt, rounded down.
Sqrt(n) == SqrtBetween(n, 0, 46340)

\* Math.hypot, rounded down.
Hypot(dx, dy) == Sqrt(dx * dx + dy * dy)

\* sin on [0, Pi] in thousandths (Bhaskara's rational approximation).
SinHalf(x) ==
  LET p == x * (Pi - x)
  IN  (16 * p) \div ((5 * Pi * Pi - 4 * p) \div 1000)

\* Math.sin in thousandths, any angle in milliradians.
Sin(a) ==
  LET x == a % TwoPi
  IN  IF x <= Pi THEN SinHalf(x) ELSE -SinHalf(x - Pi)

\* Math.cos in thousandths.
Cos(a) == Sin(a + Pi \div 2)

\* atan(n / d) in milliradians for 0 <= n <= d, d > 0.
AtanUnit(n, d) ==
  LET z == (1000 * n) \div d
  IN  (z * (785 + (273 * (1000 - z)) \div 1000)) \div 1000

\* Math.atan2(y, x) in milliradians, in (-Pi, Pi].
Atan2(y, x) ==
  LET ay == Abs(y)
      ax == Abs(x)
      first == IF ax = 0 /\ ay = 0 THEN 0
               ELSE IF ay <= ax THEN AtanUnit(ay, ax)
               ELSE Pi \div 2 - AtanUnit(ax, ay)
      upper == IF x >= 0 THEN first ELSE Pi - first
  IN  IF y >= 0 THEN upper ELSE -upper

\* Math.asin of s thousandths, 0 <= s <= 1000, in milliradians.
Asin(s) == Atan2(s, Sqrt(1000000 - s * s))

\* An angle brought into (-Pi, Pi], as Math.atan2 returns it.
NormPi(a) ==
  LET x == a % TwoPi
  IN  IF x > Pi THEN x - TwoPi ELSE x

(* ------------------------------------------------------------------ *)
(* State                                                               *)
(* ------------------------------------------------------------------ *)

VARIABLES
  pc,          \* where the generator process is: "main", "probe", "setup",
               \* "loop" (a sendFrame call is due), "ended", "exited"
  argv,        \* [input, output]: whether each positional argument is given
  probed,      \* what spawnSync('ffprobe', ...) returned, NoProbe before
  meta,        \* the probe's result: width, height (pixels), fps (a fraction),
               \* duration (milliseconds)
  currentConfig, \* the ring configuration and destruction effect chosen
  rings,       \* the ring sequence
  ball,        \* the ball
  sparkles,    \* particle pool
  explosions,  \* particle pool (flashes and debris)
  shockwaves,  \* particle pool
  nextId,      \* serial number the next ring created gets (ring identity)
  last,        \* what the last update step did (bounced, passed, reset, removed)
  frame,       \* sendFrame's frame counter
  encoder,     \* the ffmpeg child: "none", "running", "exited"
  encoderCode, \* its exit code once exited
  stdinBuf,    \* frames written to ffmpeg.stdin and not yet taken by the encoder
  stdinEnded,  \* number of ffmpeg.stdin.end() calls
  epipe,       \* a write was issued on the pipe after the encoder had exited
  written,     \* byte length of every frame passed to ffmpeg.stdin.write, in order
  log,         \* the calls sendFrame made, in order
  exitCode,    \* the generator's exit code once exited, -1 before
  drawn,       \* what Math.random() returned, in the order of the calls: one
               \* record of draws for start-up, one for every sendFrame call
               \* (kept by the whole-process specification only)
  requests     \* the bot's video requests: how far processVideo has come with
               \* each, and which of its temporary files exist

scene == <<rings, ball, sparkles, explosions, shockwaves, nextId, last>>

pipe == <<encoder, encoderCode, stdinBuf, stdinEnded, epipe, written, log>>

vars == <<pc, argv, probed, meta, currentConfig, scene, frame, pipe, exitCode, drawn,
         requests>>

(* ------------------------------------------------------------------ *)
(* Constants of the run (lines 164-189)                                *)
(* ------------------------------------------------------------------ *)

WIDTH == meta.width

HEIGHT == meta.height

\* probeVideo's fps: den ? num / den : 30.
ProbeFps(num, den) == IF den # 0 THEN <<num, den>> ELSE <<30, 1>>

FPS == RoundDiv(meta.fps[1], meta.fps[2])

SHORTER == Min(WIDTH, HEIGHT)

\* SHORTER * perMille / 1000 pixels, in length units.
Units(perMille) == (SHORTER * SubPixel * perMille) \div 1000

RING_COUNT == 25

BASE_RING_RADIUS == Units(350)

RING_SPACING == Units(16)

RING_WIDTH == Units(5)

HOLE_ARC == Pi \div 3

BALL_RADIUS == Units(8)

BALL_SPEED == Units(500)

SUB_STEPS == 2

BOUNCE_RANDOMNESS == 200

MIN_ENERGY_FACTOR == 850

MAX_ENERGY_FACTOR == 1150

ENERGY_CHANCE_BOOST == 600

MIN_BALL_SPEED == Units(200)

MAX_BALL_SPEED == Units(800)

SPARKLE_COUNT == 18

SPARKLE_SPEED == Units(350)

SPARKLE_LIFE == 700

RING_SHRINK_RATE == Units(8)

MIN_VISUAL_RADIUS == Units(10)

\* The 20 pixel margin of the escape check.
ESCAPE_MARGIN == 20 * SubPixel

CenterX == (WIDTH * SubPixel) \div 2

CenterY == (HEIGHT * SubPixel) \div 2

\* const frameCount = Math.ceil(meta.duration * FPS)
frameCount == CeilDiv(meta.duration * FPS, 1000)

\* Byte length of one raw RGBA frame (getImageData(0, 0, WIDTH, HEIGHT)).
FrameBytes == WIDTH * HEIGHT * 4

RingConfigNames == {"random", "aligned", "alternating"}

DestructionEffectNames == {"sparkles", "explosion", "shockwave", "combined"}

(* ------------------------------------------------------------------ *)
(* The random source                                                   *)
(* ------------------------------------------------------------------ *)

\* rand(min, max) = Math.random() * (max - min) + min, for the draw u in
\* thousandths (0 <= u < 1000).
Rand(min, max, u) == min + (u * (max - min)) \div 1000

\* One value of Math.random() for every place of one step that draws.  Inside
\* one loop (the rings of a configuration, the sparkles of one burst, the
\* debris of one explosion) every iteration gets the same value.
DrawFields ==
  {"ringAngle", "ringSpeed", "ringSign", "energy", "boost", "bounce", "reset",
   "sparkAngle", "sparkSpeed", "debrisCount", "debrisAngle", "debrisSpeed",
   "debrisSize", "debrisLife", "debrisRotation", "debrisSpin", "combined",
   "shape"}

\* The draw that is 0 everywhere.
ZeroDraws == [f \in DrawFields |-> 0]

(* ------------------------------------------------------------------ *)
(* Scene construction (lines 221-255, 388-426)                         *)
(* ------------------------------------------------------------------ *)

\* RING_CONFIGURATIONS[..].setupRings: the angle and speed of ring i (0-based).
SetupAngle(name, i, rnd) ==
  LET baseAngle == Rand(0, TwoPi, rnd.ringAngle)
  IN  CASE name = "random" -> baseAngle
        [] name = "aligned" -> baseAngle
        [] name = "alternating" -> baseAngle + (IF i % 2 = 0 THEN 0 ELSE Pi)

SetupSpeed(name, i, rnd) ==
  CASE name = "random" ->
         (IF rnd.ringSign > 500 THEN 1 ELSE -1) * Rand(300, 800, rnd.ringSpeed)
    [] name = "aligned" ->
         (IF i % 2 = 0 THEN 1 ELSE -1)
           * ((Rand(200, 500, rnd.ringSpeed) * (1000 - (i * 800) \div RING_COUNT)) \div 1000)
    [] name = "alternating" ->
         (IF i % 2 = 0 THEN 1 ELSE -1) * Rand(400, 700, rnd.ringSpeed)

\* initializeRings(): RING_COUNT rings, innermost first.
initializeRings(name, rnd) ==
  [k \in 1..RING_COUNT |->
     [radius |-> BASE_RING_RADIUS + (k - 1) * RING_SPACING,
      width |-> RING_WIDTH,
      holeSize |-> HOLE_ARC,
      angle |-> SetupAngle(name, k - 1, rnd),
      speed |-> SetupSpeed(name, k - 1, rnd),
      visible |-> TRUE,
      id |-> k - 1]]

\* resetBall(): the ball at the centre, base speed, a fresh direction.
ResetBallState(rnd) ==
  [x |-> CenterX, y |-> CenterY, radius |-> BALL_RADIUS,
   speed |-> BALL_SPEED, dir |-> Rand(0, TwoPi, rnd.reset)]

\* resetBall(): every ring visible again.
AllVisible(rs) == [i \in DOMAIN rs |-> [rs[i] EXCEPT !.visible = TRUE]]

(* ------------------------------------------------------------------ *)
(* Destruction effects (lines 341-370, 428-502)                        *)
(* ------------------------------------------------------------------ *)

spawnSparkles(x, y, rnd) ==
  LET ang == Rand(0, TwoPi, rnd.sparkAngle)
      spd == (Rand(400, 1000, rnd.sparkSpeed) * SPARKLE_SPEED) \div 1000
  IN  [i \in 1..SPARKLE_COUNT |->
         [type |-> "sparkle", x |-> x, y |-> y,
          vx |-> Div(Cos(ang) * spd, 1000), vy |-> Div(Sin(ang) * spd, 1000),
          life |-> SPARKLE_LIFE, maxLife |-> SPARKLE_LIFE]]

spawnExplosion(x, y, rnd) ==
  LET debrisCount == 5 + (rnd.debrisCount * 5) \div 1000
      ang == Rand(0, TwoPi, rnd.debrisAngle)
      spd == (Rand(300, 700, rnd.debrisSpeed) * SPARKLE_SPEED * 3) \div 2000
      size == Rand((BALL_RADIUS * 5) \div 10, (BALL_RADIUS * 12) \div 10, rnd.debrisSize)
      life == Rand(300, 800, rnd.debrisLife)
      flash == [type |-> "flash", x |-> x, y |-> y,
                radius |-> BALL_RADIUS * 2, maxRadius |-> Units(40),
                life |-> 500, maxLife |-> 500]
      debris == [type |-> "debris", x |-> x, y |-> y,
                 vx |-> Div(Cos(ang) * spd, 1000), vy |-> Div(Sin(ang) * spd, 1000),
                 radius |-> size, life |-> life, maxLife |-> life,
                 rotation |-> Rand(0, TwoPi, rnd.debrisRotation),
                 rotationSpeed |-> Rand(-Pi, Pi, rnd.debrisSpin) * 2,
                 shapeType |-> "undefined"]
  IN  <<flash>> \o [i \in 1..debrisCount |-> debris]

spawnShockwave(x, y, rnd) ==
  <<[type |-> "shockwave", x |-> x, y |-> y,
     radius |-> BALL_RADIUS * 2, maxRadius |-> Units(100),
     life |-> 600, maxLife |-> 600]>>

\* DESTRUCTION_EFFECTS[..].createEffect(x, y, ring): the particles added to
\* the three pools.
createEffect(name, x, y, rnd) ==
  [sparkles |-> IF name \in {"sparkles", "combined"}
                THEN spawnSparkles(x, y, rnd) ELSE <<>>,
   explosions |-> IF name = "explosion" \/ (name = "combined" /\ rnd.combined < 300)
                  THEN spawnExplosion(x, y, rnd) ELSE <<>>,
   shockwaves |-> IF name \in {"shockwave", "combined"}
                  THEN spawnShockwave(x, y, rnd) ELSE <<>>]

(* ------------------------------------------------------------------ *)
(* update(dt): the collision test (lines 533-568)                      *)
(* ------------------------------------------------------------------ *)

ringInnerRadius(ring) == ring.radius - ring.width \div 2

ringOuterRadius(ring) == ring.radius + ring.width \div 2

ballCollisionZoneInner(ring, b) == ringInnerRadius(ring) - b.radius

ballCollisionZoneOuter(ring, b) == ringOuterRadius(ring) + b.radius

inCollisionZone(ring, b, dist) ==
  dist >= ballCollisionZoneInner(ring, b) /\ dist <= ballCollisionZoneOuter(ring, b)

enteredCollisionZone(ring, b, prevDist, dist) ==
  \/ prevDist < ballCollisionZoneInner(ring, b) /\ dist >= ballCollisionZoneInner(ring, b)
  \/ prevDist > ballCollisionZoneOuter(ring, b) /\ dist <= ballCollisionZoneOuter(ring, b)

\* rel = (Math.atan2(dy, dx) - ring.angle + 2 PI) % (2 PI), with JavaScript's %.
RelAngle(ring, theta) == JsRem(theta - ring.angle + TwoPi, TwoPi)

\* Math.asin(Math.min(0.99, ball.radius * 1.1 / (dist + 1e-6)))
angularBallRadius(b, dist) ==
  Asin(Min(990, IF dist = 0 THEN 990 ELSE (b.radius * 1100) \div dist))

solidPartStartAngle(ring, b, dist) == ring.holeSize \div 2 + angularBallRadius(b, dist)

solidPartEndAngle(ring, b, dist) == (TwoPi - ring.holeSize \div 2) - angularBallRadius(b, dist)

\* An angular test that finds the ball on the solid part everywhere.
isInHoleNever(ring, b, theta, dist) == FALSE

isInHole(ring, b, theta, dist) ==
  \/ RelAngle(ring, theta) <= solidPartStartAngle(ring, b, dist)
  \/ RelAngle(ring, theta) >= solidPartEndAngle(ring, b, dist)

\* The ring bounces the ball in this sub-step.
Bounces(ring, b, prevDist, dist, theta) ==
  /\ ring.visible
  /\ inCollisionZone(ring, b, dist) \/ enteredCollisionZone(ring, b, prevDist, dist)
  /\ ~isInHole(ring, b, theta, dist)

\* The ring lets the ball through in this sub-step and is consumed.
PassesThrough(ring, b, prevDist, dist, theta) ==
  /\ ring.visible
  /\ inCollisionZone(ring, b, dist) \/ enteredCollisionZone(ring, b, prevDist, dist)
  /\ isInHole(ring, b, theta, dist)
  /\ enteredCollisionZone(ring, b, prevDist, dist)

\* A ring loop that resolves the last ring in range instead of the first.
LastInteraction(rs, b, prevDist, dist, theta) ==
  LET hits == {i \in DOMAIN rs :
                 \/ Bounces(rs[i], b, prevDist, dist, theta)
                 \/ PassesThrough(rs[i], b, prevDist, dist, theta)}
  IN  IF hits = {} THEN 0 ELSE CHOOSE i \in hits : \A j \in hits : i >= j

\* for (const ring of rings): the index of the first ring that breaks out of
\* the loop (a bounce or a pass-through), 0 when the loop runs to its end.
FirstInteraction(rs, b, prevDist, dist, theta) ==
  LET hits == {i \in DOMAIN rs :
                 \/ Bounces(rs[i], b, prevDist, dist, theta)
                 \/ PassesThrough(rs[i], b, prevDist, dist, theta)}
  IN  IF hits = {} THEN 0 ELSE CHOOSE i \in hits : \A j \in hits : i <= j

(* ------------------------------------------------------------------ *)
(* update(dt): bounce resolution (lines 571-640)                       *)
(* ------------------------------------------------------------------ *)

\* v' = v - 2 (v . n) n for the unit normal n at angle theta: the speed is
\* kept and the direction is mirrored.
ReflectDir(dir, theta) == NormPi(2 * theta + Pi - dir)

\* shouldBoost = Math.random() < ENERGY_CHANCE_BOOST * (1 - speedRatio * 0.8)
shouldBoost(currentSpeed, rnd) ==
  LET speedRatio == (currentSpeed * 1000) \div MAX_BALL_SPEED
  IN  rnd.boost < (ENERGY_CHANCE_BOOST * (1000 - (speedRatio * 8) \div 10)) \div 1000

finalFactor(currentSpeed, rnd) ==
  LET energyFactor == Rand(MIN_ENERGY_FACTOR, MAX_ENERGY_FACTOR, rnd.energy)
  IN  IF shouldBoost(currentSpeed, rnd) THEN Max(1000, energyFactor)
      ELSE Min(1000, energyFactor)

\* A bounce that leaves the scaled speed as it is.
ClampSpeedOff(newSpeed) == newSpeed

\* Lines 597-609: the speed brought back into [MIN_BALL_SPEED, MAX_BALL_SPEED].
\* newSpeed > 0: the ball never stands still (it starts at BALL_SPEED and a
\* bounce scales its speed by at least MIN_ENERGY_FACTOR).
ClampSpeed(newSpeed) ==
  IF newSpeed < MIN_BALL_SPEED THEN MIN_BALL_SPEED
  ELSE IF newSpeed > MAX_BALL_SPEED THEN MAX_BALL_SPEED
  ELSE newSpeed

\* Lines 611-620: the direction turned by rand(-BOUNCE_RANDOMNESS, BOUNCE_RANDOMNESS),
\* the speed kept.
Perturb(curSpeed, curAngle, rnd) ==
  [speed |-> curSpeed,
   dir |-> curAngle + Rand(-BOUNCE_RANDOMNESS, BOUNCE_RANDOMNESS, rnd.bounce)]

\* Lines 574-620: the ball's velocity after the bounce.
BounceVelocity(b, theta, rnd) ==
  LET reflected == ReflectDir(b.dir, theta)
      newSpeed == (b.speed * finalFactor(b.speed, rnd)) \div 1000
  IN  Perturb(ClampSpeed(newSpeed), reflected, rnd)

\* Lines 622-632: the radial displacement that pushes the ball out of the ring
\* (negative: toward the centre).
PushOut(ring, b, dist) ==
  LET hitInner == dist < ring.radius
      penetration == IF hitInner THEN ringInnerRadius(ring) - (dist - b.radius)
                     ELSE (dist + b.radius) - ringOuterRadius(ring)
      pushFactor == penetration + (b.radius * 6) \div 10
  IN  IF hitInner THEN -pushFactor ELSE pushFactor

\* The ball after bouncing off the ring; (dx, dy) is its offset from the centre
\* and dist the offset's length (nx = dx / dist, ny = dy / dist).
Bounce(ring, b, dx, dy, dist, theta, rnd) ==
  LET v == BounceVelocity(b, theta, rnd)
      push == PushOut(ring, b, dist)
  IN  [b EXCEPT !.speed = v.speed, !.dir = v.dir,
                !.x = IF dist = 0 THEN @ ELSE @ + Div(dx * push, dist),
                !.y = IF dist = 0 THEN @ ELSE @ + Div(dy * push, dist)]

(* ------------------------------------------------------------------ *)
(* update(dt) (lines 505-735); dt = 1 / FPS                            *)
(* ------------------------------------------------------------------ *)

\* What an update step has done so far.
NothingYet == [bounced |-> FALSE, passed |-> FALSE, reset |-> FALSE,
               removed |-> 0, hit |-> -1, steps |-> 0, beyond |-> FALSE]

\* Line 507: rings.forEach(r => r.angle += r.speed * dt)
RotateRings(rs) == [i \in DOMAIN rs |-> [rs[i] EXCEPT !.angle = @ + Div(rs[i].speed, FPS)]]

\* Lines 523-524: the ball moved by velocity * subDt.
MoveBall(b) ==
  [b EXCEPT !.x = @ + Div(b.speed * Cos(b.dir), 1000 * FPS * SUB_STEPS),
            !.y = @ + Div(b.speed * Sin(b.dir), 1000 * FPS * SUB_STEPS)]

\* Lines 641-647: ring i consumed, the destruction effect spawned at the ball.
PassThrough(s, i, b, rnd) ==
  LET effect == createEffect(currentConfig.destructionEffect, b.x, b.y, rnd)
  IN  [s EXCEPT !.rings[i].visible = FALSE,
                !.ball = b,
                !.sparkles = @ \o effect.sparkles,
                !.explosions = @ \o effect.explosions,
                !.shockwaves = @ \o effect.shockwaves,
                !.last.passed = TRUE,
                !.last.hit = s.rings[i].id]

\* One iteration of the sub-step loop (lines 518-650).
SubStep(s, rnd) ==
  LET prevDist == Hypot(s.ball.x - CenterX, s.ball.y - CenterY)
      b == MoveBall(s.ball)
      dx == b.x - CenterX
      dy == b.y - CenterY
      dist == Hypot(dx, dy)
      theta == Atan2(dy, dx)
      i == FirstInteraction(s.rings, b, prevDist, dist, theta)
      t == [s EXCEPT !.last.steps = @ + 1]
  IN  IF i = 0 THEN [t EXCEPT !.ball = b]
      ELSE IF Bounces(s.rings[i], b, prevDist, dist, theta)
      THEN [t EXCEPT !.ball = Bounce(s.rings[i], b, dx, dy, dist, theta, rnd),
                     !.last.bounced = TRUE,
                     !.last.hit = s.rings[i].id]
      ELSE PassThrough(t, i, b, rnd)

\* Lines 517-656: up to n more sub-steps; a bounce or a pass-through ends the loop.
RECURSIVE SubSteps(_, _, _)
SubSteps(s, n, rnd) ==
  IF n = 0 \/ s.last.bounced \/ s.last.passed THEN s
  ELSE SubSteps(SubStep(s, rnd), n - 1, rnd)

\* const maxR (line 662)
maxR(s) ==
  IF Len(s.rings) > 0
  THEN s.rings[Len(s.rings)].radius + RING_WIDTH + s.ball.radius + ESCAPE_MARGIN
  ELSE (SHORTER * SubPixel) \div 2

\* Lines 659-662: the ball is farther from the centre than maxR.
BeyondRings(s) == Hypot(s.ball.x - CenterX, s.ball.y - CenterY) > maxR(s)

\* An escape check that never resets.
EscapeCheckOff(s, rnd) == s

\* Lines 658-663: resetBall() when the ball is beyond maxR.
EscapeCheck(s, rnd) ==
  IF Hypot(s.ball.x - CenterX, s.ball.y - CenterY) > maxR(s)
  THEN [s EXCEPT !.ball = ResetBallState(rnd),
                 !.rings = AllVisible(s.rings),
                 !.last.reset = TRUE]
  ELSE s

\* A shrink pass that leaves every ring as it is.
ShrinkRingNever(r) == r

\* Lines 666-669: every visible ring shrinks by RING_SHRINK_RATE * dt.
ShrinkRing(r) ==
  IF ~r.visible THEN r ELSE [r EXCEPT !.radius = @ - RING_SHRINK_RATE \div FPS]

ShrinkRings(rs) == [i \in DOMAIN rs |-> ShrinkRing(rs[i])]

\* Lines 673-675: while (rings.length && rings[0].visible &&
\* rings[0].radius < MIN_VISUAL_RADIUS) rings.shift()
RECURSIVE RemoveSmall(_)
RemoveSmall(rs) ==
  IF Len(rs) > 0 /\ rs[1].visible /\ rs[1].radius < MIN_VISUAL_RADIUS
  THEN RemoveSmall(Tail(rs))
  ELSE rs

\* Lines 679-689: the ring pushed at the outer edge.
NewRing(rs, id, rnd) ==
  [radius |-> IF Len(rs) > 0 THEN rs[Len(rs)].radius + RING_SPACING
              ELSE BASE_RING_RADIUS,
   width |-> RING_WIDTH,
   holeSize |-> HOLE_ARC,
   angle |-> Rand(0, TwoPi, rnd.ringAngle),
   speed |-> (IF Len(rs) % 2 = 0 THEN 1 ELSE -1) * Rand(300, 800, rnd.ringSpeed),
   visible |-> TRUE,
   id |-> id]

\* A recycling that appends nothing.
RefillNothing(rs, id, rnd) == rs

\* Lines 678-690: while (rings.length < RING_COUNT) rings.push(...)
RECURSIVE Refill(_, _, _)
Refill(rs, id, rnd) ==
  IF Len(rs) < RING_COUNT
  THEN Refill(Append(rs, NewRing(rs, id, rnd)), id + 1, rnd)
  ELSE rs

\* Lines 665-690: shrink, remove from the front, refill at the back.
RecycleRings(s, rnd) ==
  LET shrunk == ShrinkRings(s.rings)
      kept == RemoveSmall(shrunk)
      removed == Len(shrunk) - Len(kept)
      filled == Refill(kept, s.nextId, rnd)
  IN  [s EXCEPT !.rings = filled,
                !.nextId = @ + (Len(filled) - Len(kept)),
                !.last.removed = removed]

\* A sparkle update that moves the sparkle and leaves its life alone.
AgeSparkleKeepsLife(p) ==
  [p EXCEPT !.x = @ + Div(p.vx, FPS), !.y = @ + Div(p.vy, FPS)]

\* Lines 693-699.
AgeSparkle(p) ==
  [p EXCEPT !.x = @ + Div(p.vx, FPS), !.y = @ + Div(p.vy, FPS),
            !.life = @ - 1000 \div FPS]

\* Lines 702-719.
AgeExplosion(e) ==
  LET life == e.life - 1000 \div FPS
  IN  IF e.type = "flash"
      THEN [e EXCEPT !.life = life,
                     !.radius = (e.maxRadius * (e.maxLife - life)) \div e.maxLife]
      ELSE [e EXCEPT !.life = life,
                     !.x = @ + Div(e.vx, FPS), !.y = @ + Div(e.vy, FPS),
                     !.vy = @ + Units(200) \div FPS,
                     !.rotation = @ + Div(e.rotationSpeed, FPS)]

\* Lines 725-731.
AgeShockwave(w) ==
  LET life == w.life - 1000 \div FPS
  IN  [w EXCEPT !.life = life,
                !.radius = (w.maxRadius * (w.maxLife - life)) \div w.maxLife]

Alive(p) == p.life > 0

\* Lines 692-734: every pool aged by dt, the dead particles spliced out.
AgeParticles(s) ==
  [s EXCEPT !.sparkles = SelectSeq([i \in DOMAIN @ |-> AgeSparkle(@[i])], Alive),
            !.explosions = SelectSeq([i \in DOMAIN @ |-> AgeExplosion(@[i])], Alive),
            !.shockwaves = SelectSeq([i \in DOMAIN @ |-> AgeShockwave(@[i])], Alive)]

\* update(1 / FPS) on the scene s with the draws rnd.
update(s, rnd) ==
  LET rotated == [s EXCEPT !.rings = RotateRings(s.rings), !.last = NothingYet]
      stepped == SubSteps(rotated, SUB_STEPS, rnd)
      checked == EscapeCheck(stepped, rnd)
      noted == [checked EXCEPT !.last.beyond = BeyondRings(stepped)]
      recycled == RecycleRings(noted, rnd)
  IN  AgeParticles(recycled)

(* ------------------------------------------------------------------ *)
(* draw(ctx) (lines 737-821)                                           *)
(* ------------------------------------------------------------------ *)

\* Lines 793-796: a debris particle drawn for the first time gets its shape.
DrawDebris(e, rnd) ==
  IF e.type = "debris" /\ e.shapeType = "undefined"
  THEN [e EXCEPT !.shapeType = IF rnd.shape > 500 THEN "square" ELSE "triangle"]
  ELSE e

\* draw(ctx): the scene after the render.
draw(s, rnd) ==
  [s EXCEPT !.explosions = [i \in DOMAIN @ |-> DrawDebris(@[i], rnd)]]

(* ------------------------------------------------------------------ *)
(* The bot's requests (lines 13-113)                                   *)
(* ------------------------------------------------------------------ *)

\* The video messages; each gets file names of its own (userId, Date.now()).
Requests == 1..MaxRequests

\* No message has arrived for this request.
NoRequest == [stage |-> "none", messageType |-> "none", outcome |-> "none",
              inputFile |-> FALSE, outputFile |-> FALSE]

(* ------------------------------------------------------------------ *)
(* Inputs explored                                                     *)
(* ------------------------------------------------------------------ *)

\* What spawnSync('ffprobe', ...) can return: a failure status, output that
\* JSON.parse rejects, or the stream's metadata.
ProbeResults ==
  {[status |-> 1, parsable |-> TRUE, width |-> 400, height |-> 400,
    num |-> 1, den |-> 1, duration |-> 1000],
   [status |-> 0, parsable |-> FALSE, width |-> 400, height |-> 400,
    num |-> 1, den |-> 1, duration |-> 1000]}
  \cup
  {[status |-> 0, parsable |-> TRUE, width |-> w, height |-> 400,
    num |-> f[1], den |-> f[2], duration |-> 500 * h] :
      w \in {400, 800}, f \in {<<1, 1>>, <<3, 2>>}, h \in 0..MaxHalfSeconds}

\* Values of Math.random() explored at start-up by the whole program.
SetupDraws ==
  {[ZeroDraws EXCEPT !.ringAngle = 0, !.ringSpeed = 500, !.ringSign = 999, !.reset = 0]}

\* Values of Math.random() explored in one frame by the whole program.
FrameDraws ==
  {[ZeroDraws EXCEPT !.energy = e[1], !.boost = e[2], !.bounce = e[3], !.reset = e[4],
                     !.ringSpeed = 500, !.sparkSpeed = 500, !.debrisLife = 999,
                     !.shape = 999] :
     e \in {<<0, 999, 0, 0>>, <<999, 0, 999, 250>>}}

(* ------------------------------------------------------------------ *)
(* The generator process (lines 140-167, 823-862)                      *)
(* ------------------------------------------------------------------ *)

\* No probe was run yet.
NoProbe == [status |-> -1, parsable |-> FALSE, width |-> 0, height |-> 0,
            num |-> 0, den |-> 1, duration |-> 0]

NoMeta == [width |-> 0, height |-> 0, fps |-> <<0, 1>>, duration |-> 0]

NoBall == [x |-> 0, y |-> 0, radius |-> 0, speed |-> 0, dir |-> 0]

Init ==
  /\ pc = "main"
  /\ argv \in [input : BOOLEAN, output : BOOLEAN]
  /\ probed = NoProbe
  /\ meta = NoMeta
  /\ currentConfig = [ringConfig |-> "random", destructionEffect |-> "sparkles"]
  /\ rings = <<>>
  /\ ball = NoBall
  /\ sparkles = <<>>
  /\ explosions = <<>>
  /\ shockwaves = <<>>
  /\ nextId = 0
  /\ last = NothingYet
  /\ frame = 0
  /\ encoder = "none"
  /\ encoderCode = -1
  /\ stdinBuf = 0
  /\ stdinEnded = 0
  /\ epipe = FALSE
  /\ written = <<>>
  /\ log = <<>>
  /\ exitCode = -1
  /\ drawn = <<>>
  /\ requests = [r \in Requests |-> NoRequest]

\* process.exit(code), or an exception nobody catches.
Exit(code) == pc' = "exited" /\ exitCode' = code

\* Lines 140-144: both path arguments are required.
ParseArgs ==
  /\ pc = "main"
  /\ IF ~argv.input \/ ~argv.output
     THEN Exit(1)
     ELSE pc' = "probe" /\ UNCHANGED exitCode
  /\ UNCHANGED <<argv, requests, drawn, probed, meta, currentConfig, scene, frame, pipe>>

\* A probe that accepts whatever ffprobe returned.
ProbeOkUnchecked(res) == TRUE

\* probeVideo(path) returned (it exits or throws otherwise).
ProbeOk(res) == res.status = 0 /\ res.parsable

\* Lines 153-161: the metadata read from the probe's output.
probeVideo(res) ==
  [width |-> res.width, height |-> res.height,
   fps |-> ProbeFps(res.num, res.den), duration |-> res.duration]

\* Lines 146-167: const meta = probeVideo(inputPath).
Probe ==
  /\ pc = "probe"
  /\ \E res \in ProbeResults :
       /\ probed' = res
       /\ IF ProbeOk(res)
          THEN pc' = "setup" /\ meta' = probeVideo(res) /\ UNCHANGED exitCode
          ELSE Exit(1) /\ UNCHANGED meta
  /\ UNCHANGED <<argv, requests, drawn, currentConfig, scene, frame, pipe>>

\* Lines 373-378, 829-840, 860-861: the configuration is chosen, ffmpeg is
\* spawned, initializeRings() and resetBall() build the scene.
Setup ==
  /\ pc = "setup"
  /\ \E rc \in RingConfigNames, de \in DestructionEffectNames, rnd \in SetupDraws :
       /\ currentConfig' = [ringConfig |-> rc, destructionEffect |-> de]
       /\ rings' = initializeRings(rc, rnd)
       /\ ball' = ResetBallState(rnd)
       /\ drawn' = <<rnd>>
  /\ nextId' = RING_COUNT
  /\ encoder' = "running"
  /\ pc' = "loop"
  /\ UNCHANGED <<argv, requests, probed, meta, sparkles, explosions, shockwaves, last, frame,
                 encoderCode, stdinBuf, stdinEnded, epipe, written, log, exitCode>>

\* The scene and the loop's bookkeeping, as one value sendFrame works on.
Running ==
  [scene |-> [rings |-> rings, ball |-> ball, sparkles |-> sparkles,
              explosions |-> explosions, shockwaves |-> shockwaves,
              nextId |-> nextId, last |-> last],
   frame |-> frame, written |-> written, stdinBuf |-> stdinBuf,
   stdinEnded |-> stdinEnded, scheduled |-> FALSE, log |-> log]

\* An update whose outcome depends on the pipe: with frames waiting in
\* ffmpeg.stdin it ignores the draws.
CallUpdateByBacklog(p, rnd) ==
  [p EXCEPT !.scene = update(p.scene, IF p.stdinBuf > 0 THEN ZeroDraws ELSE rnd),
            !.log = Append(@, <<"update", p.frame>>)]

\* update(1 / FPS), as sendFrame calls it.
CallUpdate(p, rnd) ==
  [p EXCEPT !.scene = update(p.scene, rnd), !.log = Append(@, <<"update", p.frame>>)]

\* draw(ctx), as sendFrame calls it.
CallDraw(p, rnd) ==
  [p EXCEPT !.scene = draw(p.scene, rnd), !.log = Append(@, <<"draw", p.frame>>)]

\* ffmpeg.stdin.write(buf): the frame is queued whatever the stream's state,
\* and the value write() returns is dropped.
CallWrite(p, bytes) ==
  [p EXCEPT !.written = Append(@, bytes), !.stdinBuf = @ + 1,
            !.log = Append(@, <<"write", p.frame>>)]

\* A loop tail that ends the stream after every frame and goes on all the same.
CallNextEndingEveryFrame(p) ==
  LET q == [p EXCEPT !.frame = @ + 1, !.stdinEnded = @ + 1,
                     !.log = Append(@, <<"end", p.frame + 1>>)]
  IN  [q EXCEPT !.scheduled = q.frame < frameCount]

\* Lines 855-857: frame++, then the next call is scheduled or the stream ended.
CallNext(p) ==
  LET q == [p EXCEPT !.frame = @ + 1]
  IN  IF q.frame < frameCount
      THEN [q EXCEPT !.scheduled = TRUE]
      ELSE [q EXCEPT !.stdinEnded = @ + 1, !.log = Append(@, <<"end", q.frame>>)]

\* sendFrame() (lines 845-858).
sendFrame(p, rnd) == CallNext(CallWrite(CallDraw(CallUpdate(p, rnd), rnd), FrameBytes))

\* A sendFrame call runs: the first one from the module's last line, the later
\* ones from setImmediate.
SendFrame ==
  /\ pc = "loop"
  /\ ~epipe
  /\ \E rnd \in FrameDraws :
       \E p \in {sendFrame(Running, rnd)} :
           /\ rings' = p.scene.rings
           /\ ball' = p.scene.ball
           /\ sparkles' = p.scene.sparkles
           /\ explosions' = p.scene.explosions
           /\ shockwaves' = p.scene.shockwaves
           /\ nextId' = p.scene.nextId
           /\ last' = p.scene.last
           /\ frame' = p.frame
           /\ written' = p.written
           /\ stdinBuf' = p.stdinBuf
           /\ stdinEnded' = p.stdinEnded
           /\ log' = p.log
           /\ pc' = IF p.scheduled THEN "loop" ELSE "ended"
           /\ drawn' = Append(drawn, rnd)
  /\ epipe' = (encoder = "exited")
  /\ UNCHANGED <<argv, requests, probed, meta, currentConfig, encoder, encoderCode, exitCode>>

\* The encoder takes the oldest queued frame from its standard input.
EncoderAccept ==
  /\ encoder = "running"
  /\ stdinBuf > 0
  /\ stdinBuf' = stdinBuf - 1
  /\ UNCHANGED <<pc, argv, requests, drawn, probed, meta, currentConfig, scene, frame, encoder, encoderCode,
                 stdinEnded, epipe, written, log, exitCode>>

\* The encoder process exits, with success or with an error, at any time.
EncoderExit ==
  /\ encoder = "running"
  /\ encoder' = "exited"
  /\ encoderCode' \in {0, 1}
  /\ UNCHANGED <<pc, argv, requests, drawn, probed, meta, currentConfig, scene, frame, stdinBuf, stdinEnded,
                 epipe, written, log, exitCode>>

\* Frames are still queued for an encoder that has exited: the pipe reports
\* EPIPE, ffmpeg.stdin emits 'error', nothing listens and the process dies.
StdinError ==
  /\ pc \in {"loop", "ended"}
  /\ encoder = "exited"
  /\ stdinBuf > 0
  /\ Exit(1)
  /\ UNCHANGED <<argv, requests, drawn, probed, meta, currentConfig, scene, frame, pipe>>

\* Nothing is left to do: every frame was taken, the stream is ended and the
\* child is gone.  The event loop empties and the process exits with 0; no
\* listener looks at the child's exit code.
ProcessExit ==
  /\ pc = "ended"
  /\ encoder = "exited"
  /\ stdinBuf = 0
  /\ Exit(0)
  /\ UNCHANGED <<argv, requests, drawn, probed, meta, currentConfig, scene, frame, pipe>>

Next ==
  \/ ParseArgs
  \/ Probe
  \/ Setup
  \/ SendFrame
  \/ EncoderAccept
  \/ EncoderExit
  \/ StdinError
  \/ ProcessExit

Spec == Init /\ [][Next]_vars

(* ------------------------------------------------------------------ *)
(* Properties of the generator process                                 *)
(* ------------------------------------------------------------------ *)

\* C1: once the channel is closed, exactly frameCount frames were written to
\* it, each of WIDTH x HEIGHT x 4 bytes, for every probe result with
\* frameCount >= 0.
C1_FrameCountWritten ==
  stdinEnded > 0 =>
    /\ Len(written) = frameCount
    /\ \A i \in DOMAIN written : written[i] = FrameBytes

\* C2: once the encoder process has exited, no further physics step, render
\* or write is performed.
C2_StopsWhenEncoderExits ==
  [][encoder = "exited" => log' = log]_vars

\* C3: the generator exits non-zero whenever the encoder exited non-zero, and
\* exits with 0 only when the encoder completed successfully.
C3_ExitCodeFollowsEncoder ==
  (pc = "exited" /\ encoder = "exited") =>
    /\ encoderCode # 0 => exitCode # 0
    /\ exitCode = 0 => encoderCode = 0

\* The default highWaterMark of a Node.js writable stream, in bytes:
\* write() returns false from this many buffered bytes on.
writableHighWaterMark == 16 * 1024

\* ffmpeg.stdin's write buffer is full.
WriteBufferFull == stdinBuf * FrameBytes >= writableHighWaterMark

\* C4: no frame is produced or written while the channel's write buffer is
\* full.
C4_Backpressure ==
  [][WriteBufferFull => written' = written]_vars

\* The positions of the log that hold the given call.
LogCalls(call) == {i \in DOMAIN log : log[i][1] = call}

\* C5: frames are written in strictly increasing frame-index order, each
\* write directly preceded by one update and one draw of the same frame; the
\* channel is closed at most once, directly after the last frame's write, and
\* nothing is called after the close.
C5_WriteOrder ==
  /\ Len(log) = 3 * Len(written) + stdinEnded
  /\ stdinEnded <= 1
  /\ \A k \in 1..Len(written) :
        /\ log[3 * k - 2] = <<"update", k - 1>>
        /\ log[3 * k - 1] = <<"draw", k - 1>>
        /\ log[3 * k] = <<"write", k - 1>>
  /\ \A i \in LogCalls("end") :
        /\ i = Len(log)
        /\ i > 1
        /\ log[i - 1] = <<"write", frameCount - 1>> \/ frameCount = 0
        /\ pc \in {"ended", "exited"}

\* C5's case: a run of several frames whose channel was closed.
C5_Witness ==
  /\ stdinEnded = 1
  /\ Len(written) >= 3

\* The input is fatal: a path argument is missing, or the probe ran and
\* failed or returned output that does not parse.
FatalInput ==
  \/ ~argv.input
  \/ ~argv.output
  \/ probed # NoProbe /\ (probed.status # 0 \/ ~probed.parsable)

\* C6: on a fatal input the process exits non-zero, the encoder is never
\* spawned, no physics step runs and no frame is written.
C6_FatalInputExits ==
  FatalInput =>
    /\ pc \in {"main", "exited"}
    /\ pc = "exited" => exitCode # 0
    /\ encoder = "none"
    /\ log = <<>>
    /\ written = <<>>
    /\ frame = 0

\* C6's case: the probe ran, failed, and the process has exited.
C6_Witness ==
  /\ pc = "exited"
  /\ argv.input /\ argv.output
  /\ probed # NoProbe
  /\ probed.status # 0 \/ ~probed.parsable

\* Lines 860-861: the scene a run starts from, given the configuration chosen
\* and the start-up draws.
StartScene(rnd) ==
  [rings |-> initializeRings(currentConfig.ringConfig, rnd),
   ball |-> ResetBallState(rnd),
   sparkles |-> <<>>, explosions |-> <<>>, shockwaves |-> <<>>,
   nextId |-> RING_COUNT, last |-> NothingYet]

\* The scene of a run after the frames whose draws are ds[k], ds[k + 1], ...,
\* computed from the scene s with nothing but those draws and the metadata.
RECURSIVE Replay(_, _, _)
Replay(s, ds, k) ==
  IF k > Len(ds) THEN s
  ELSE Replay(draw(update(s, ds[k]), ds[k]), ds, k + 1)

SceneProbes ==
  {[status |-> 0, parsable |-> TRUE, width |-> 400, height |-> 400,
    num |-> f, den |-> 1, duration |-> CeilDiv(1000 * MaxWideFrames, f)] : f \in {1, 2}}
  \cup
  {[status |-> 0, parsable |-> TRUE, width |-> 400, height |-> 400,
    num |-> f, den |-> 1, duration |-> CeilDiv(1000 * MaxDeepFrames, f)] : f \in {1, 2}}

\* The long clips are explored with one value per draw.
DeepRun == frameCount > MaxWideFrames

\* Values of Math.random() explored at start-up by the scene runs.
SceneSetupDraws ==
  {[ZeroDraws EXCEPT !.ringAngle = a, !.ringSpeed = 500, !.ringSign = 999, !.reset = r] :
     a \in {0, 500}, r \in {0, 250}}

\* Values of Math.random() explored in one step by the scene runs.
SceneDraws ==
  IF DeepRun
  THEN {[ZeroDraws EXCEPT !.energy = 999, !.bounce = 999, !.reset = 250,
                          !.ringSpeed = 500, !.sparkSpeed = 500]}
  ELSE {[ZeroDraws EXCEPT !.energy = e[1], !.boost = e[2], !.bounce = d[1],
                          !.reset = d[2], !.ringSpeed = 500, !.sparkSpeed = 500,
                          !.debrisLife = 999, !.shape = 999] :
          e \in {<<0, 999>>, <<999, 0>>}, d \in {<<0, 0>>, <<999, 250>>}}

\* The state after initializeRings() and resetBall().
InitScene ==
  /\ pc = "loop"
  /\ argv = [input |-> TRUE, output |-> TRUE]
  /\ probed \in SceneProbes
  /\ meta = probeVideo(probed)
  /\ \E rc \in RingConfigNames, de \in DestructionEffectNames, rnd \in SceneSetupDraws :
       /\ currentConfig = [ringConfig |-> rc, destructionEffect |-> de]
       /\ rings = initializeRings(rc, rnd)
       /\ ball = ResetBallState(rnd)
  /\ sparkles = <<>>
  /\ explosions = <<>>
  /\ shockwaves = <<>>
  /\ nextId = RING_COUNT
  /\ last = NothingYet
  /\ frame = 0
  /\ encoder = "running"
  /\ encoderCode = -1
  /\ stdinBuf = 0
  /\ stdinEnded = 0
  /\ epipe = FALSE
  /\ written = <<>>
  /\ log = <<>>
  /\ exitCode = -1
  /\ drawn = <<>>
  /\ requests = [r \in Requests |-> NoRequest]

\* One frame's update(1 / FPS) and draw(ctx).
SceneStep ==
  /\ pc = "loop"
  /\ frame < frameCount
  /\ \E rnd \in SceneDraws :
       \E s \in {draw(update(Running.scene, rnd), rnd)} :
           /\ rings' = s.rings
           /\ ball' = s.ball
           /\ sparkles' = s.sparkles
           /\ explosions' = s.explosions
           /\ shockwaves' = s.shockwaves
           /\ nextId' = s.nextId
           /\ last' = s.last
  /\ frame' = frame + 1
  /\ UNCHANGED <<pc, argv, requests, drawn, probed, meta, currentConfig, pipe, exitCode>>

SpecScene == InitScene /\ [][SceneStep]_vars

(* ------------------------------------------------------------------ *)
(* Properties of the scene                                             *)
(* ------------------------------------------------------------------ *)

\* C8: at the end of every update step the ring sequence holds exactly
\* RING_COUNT rings.
C8_RingCount == Len(rings) = RING_COUNT

\* C8's case: an update removed a ring from the front and appended a new one
\* at the outer edge.
C8_Witness ==
  /\ last.removed > 0
  /\ nextId > RING_COUNT

\* The frame's update ran in this step.
Updated == frame' = frame + 1

\* Ring i before the step and ring j after it are the same ring.
SameRing(i, j) == rings[i].id = rings'[j].id

C10_RingsOrdered ==
  \A i \in 1..(Len(rings) - 1) : rings[i].radius < rings[i + 1].radius

\* C11: at the end of every update step every visible ring has radius > 0.
C11_VisibleRingsPositive ==
  \A i \in DOMAIN rings : rings[i].visible => rings[i].radius > 0

\* C14: when the ball is beyond the outermost ring's radius + ring width +
\* ball radius + margin after the sub-steps of an update, that update resets:
\* afterwards the ball is at the exact centre, its speed is BALL_SPEED and
\* every ring is visible.
C14_EscapeResets ==
  last.beyond =>
    /\ last.reset
    /\ ball.x = CenterX
    /\ ball.y = CenterY
    /\ ball.speed = BALL_SPEED
    /\ \A i \in DOMAIN rings : rings[i].visible

\* C14's case: the ball consumed a ring and escaped in the same update.
C14_Witness ==
  /\ last.beyond
  /\ last.passed
  /\ last.reset

\* C23: at the end of every update step no ring, visible or consumed, with
\* radius below MIN_VISUAL_RADIUS is in the sequence.
C23_NoSmallRingRemains ==
  \A i \in DOMAIN rings : rings[i].radius >= MIN_VISUAL_RADIUS

\* The number of particles in the three pools.
Particles == Len(sparkles) + Len(explosions) + Len(shockwaves)

\* C15: right after an escape reset the particle pools hold no particle
\* created before the reset (particles are only created in the sub-steps,
\* which run before the escape check).
C15_NoParticleAcrossReset ==
  last.reset => Particles = 0

\* C20: every update has executed both sub-steps, whatever the first one
\* resolved.
C20_BothSubSteps ==
  frame > 0 => last.steps = SUB_STEPS

(* ------------------------------------------------------------------ *)
(* The bounce resolution on its own                                    *)
(* ------------------------------------------------------------------ *)

\* Speeds of the ball before a bounce: the clamp's two ends, the speed
\* resetBall gives, and one speed on each side of it.
BounceSpeeds ==
  {MIN_BALL_SPEED, (MIN_BALL_SPEED + BALL_SPEED) \div 2, BALL_SPEED,
   (BALL_SPEED + MAX_BALL_SPEED) \div 2, MAX_BALL_SPEED}

\* Directions of the ball's velocity before the first bounce.
BounceDirs == {0, 2000}

\* Polar angles of the point where the ball meets the ring.
BounceThetas == {0, 1000}

\* Values of Math.random() explored in one bounce.
BounceDraws ==
  {[ZeroDraws EXCEPT !.energy = e, !.boost = b, !.bounce = d] :
     e \in {0, 999}, b \in {0, 999}, d \in {0, 999}}

\* The ball on the inner edge of the ring at polar angle theta.
BallAtRing(b, ring, theta) ==
  [b EXCEPT !.x = CenterX + Div(ringInnerRadius(ring) * Cos(theta), 1000),
            !.y = CenterY + Div(ringInnerRadius(ring) * Sin(theta), 1000)]

\* A ball in flight inside the innermost ring of a fresh scene.
InitBounce ==
  /\ pc = "loop"
  /\ argv = [input |-> TRUE, output |-> TRUE]
  /\ probed = [status |-> 0, parsable |-> TRUE, width |-> 400, height |-> 400,
               num |-> 1, den |-> 1, duration |-> 1000 * MaxBounces]
  /\ meta = probeVideo(probed)
  /\ currentConfig = [ringConfig |-> "random", destructionEffect |-> "sparkles"]
  /\ rings = initializeRings("random", ZeroDraws)
  /\ \E v \in BounceSpeeds, d \in BounceDirs :
       ball = [ResetBallState(ZeroDraws) EXCEPT !.speed = v, !.dir = d]
  /\ sparkles = <<>>
  /\ explosions = <<>>
  /\ shockwaves = <<>>
  /\ nextId = RING_COUNT
  /\ last = NothingYet
  /\ frame = 0
  /\ encoder = "running"
  /\ encoderCode = -1
  /\ stdinBuf = 0
  /\ stdinEnded = 0
  /\ epipe = FALSE
  /\ written = <<>>
  /\ log = <<>>
  /\ exitCode = -1
  /\ drawn = <<>>
  /\ requests = [r \in Requests |-> NoRequest]

\* The ball meets the solid part of the innermost ring and bounces (lines
\* 571-640); frame counts the bounces.
BounceStep ==
  /\ frame < MaxBounces
  /\ \E theta \in BounceThetas, rnd \in BounceDraws :
       LET b == BallAtRing(ball, rings[1], theta)
           dx == b.x - CenterX
           dy == b.y - CenterY
       IN  ball' = Bounce(rings[1], b, dx, dy, Hypot(dx, dy), Atan2(dy, dx), rnd)
  /\ last' = [NothingYet EXCEPT !.bounced = TRUE, !.hit = rings[1].id]
  /\ frame' = frame + 1
  /\ UNCHANGED <<pc, argv, requests, drawn, probed, meta, currentConfig, rings, sparkles, explosions,
                 shockwaves, nextId, pipe, exitCode>>

SpecBounce == InitBounce /\ [][BounceStep]_vars

(* ------------------------------------------------------------------ *)
(* The sub-step on its own                                             *)
(* ------------------------------------------------------------------ *)

\* The rings after every ring has made n full turns in its own direction of
\* rotation (line 507 adds to ring.angle without ever wrapping it).
Turned(rs, n) ==
  [i \in DOMAIN rs |->
     [rs[i] EXCEPT !.angle = IF rs[i].speed > 0 THEN @ + n * TwoPi
                             ELSE IF rs[i].speed < 0 THEN @ - n * TwoPi
                             ELSE @]]

\* The point from which one sub-step of motion with velocity (speed, dir)
\* ends on the positive x axis at distance d from the centre.
OneSubStepBefore(d, speed, dir) ==
  LET target == [x |-> CenterX + d, y |-> CenterY, radius |-> BALL_RADIUS,
                 speed |-> speed, dir |-> dir]
      moved == MoveBall(target)
  IN  [target EXCEPT !.x = @ - (moved.x - target.x), !.y = @ - (moved.y - target.y)]

\* Distances from the centre where the first sub-step ends: just inside the
\* innermost ring's band, on that ring, and on the inner edge of the next band.
CollideLandings ==
  {BASE_RING_RADIUS - RING_WIDTH \div 2 - BALL_RADIUS + 1,
   BASE_RING_RADIUS,
   BASE_RING_RADIUS + RING_SPACING - RING_WIDTH \div 2 - BALL_RADIUS}

\* Directions of flight: straight outward, and grazing.
CollideDirs == {0, Pi \div 2 - 100}

\* Speeds of the ball in the sub-step runs.
CollideSpeeds == {BALL_SPEED, MAX_BALL_SPEED}

\* Values of Math.random() explored in one sub-step.
CollideDraws ==
  {[ZeroDraws EXCEPT !.energy = e, !.boost = 999 - e, !.bounce = d,
                     !.sparkSpeed = 500, !.debrisLife = 999] :
     e \in {0, 999}, d \in {0, 999}}

\* Draws of the rings' common start angle, in thousandths of a turn: the gap
\* centred on the x axis, opposite it, and with its edge 12 milliradians
\* short of the x axis.
CollideAngles == {0, 500, 915}

\* A ball in flight in the central gap, toward the rings of a scene whose
\* rings have turned; the gaps of all rings point along the x axis, away from
\* it, or end just short of it.
InitCollide ==
  /\ pc = "loop"
  /\ argv = [input |-> TRUE, output |-> TRUE]
  /\ probed = [status |-> 0, parsable |-> TRUE, width |-> 400, height |-> 400,
               num |-> 15, den |-> 1, duration |-> 1000 * MaxCollideSteps]
  /\ meta = probeVideo(probed)
  /\ \E de \in DestructionEffectNames :
       currentConfig = [ringConfig |-> "aligned", destructionEffect |-> de]
  /\ \E a \in CollideAngles, n \in {0, 1} :
       rings = Turned(initializeRings("aligned", [ZeroDraws EXCEPT !.ringAngle = a]), n)
  /\ \E d \in CollideLandings, v \in CollideSpeeds, dir \in CollideDirs :
       ball = OneSubStepBefore(d, v, dir)
  /\ Hypot(ball.x - CenterX, ball.y - CenterY) < ballCollisionZoneInner(rings[1], ball)
  /\ sparkles = <<>>
  /\ explosions = <<>>
  /\ shockwaves = <<>>
  /\ nextId = RING_COUNT
  /\ last = NothingYet
  /\ frame = 0
  /\ encoder = "running"
  /\ encoderCode = -1
  /\ stdinBuf = 0
  /\ stdinEnded = 0
  /\ epipe = FALSE
  /\ written = <<>>
  /\ log = <<>>
  /\ exitCode = -1
  /\ drawn = <<>>
  /\ requests = [r \in Requests |-> NoRequest]

\* One iteration of the sub-step loop (lines 518-650); frame counts the
\* sub-steps.
CollideStep ==
  /\ frame < MaxCollideSteps
  /\ \E rnd \in CollideDraws :
       \E s \in {SubStep([Running.scene EXCEPT !.last = NothingYet], rnd)} :
           /\ rings' = s.rings
           /\ ball' = s.ball
           /\ sparkles' = s.sparkles
           /\ explosions' = s.explosions
           /\ shockwaves' = s.shockwaves
           /\ last' = s.last
  /\ frame' = frame + 1
  /\ UNCHANGED <<pc, argv, requests, drawn, probed, meta, currentConfig, nextId, pipe, exitCode>>

SpecCollide == InitCollide /\ [][CollideStep]_vars

\* The ball after the sub-step's move, its distance from the centre and its
\* polar angle, and its distance before the move.
Moved == MoveBall(ball)

MovedDist == Hypot(Moved.x - CenterX, Moved.y - CenterY)

MovedTheta == Atan2(Moved.y - CenterY, Moved.x - CenterX)

PrevDist == Hypot(ball.x - CenterX, ball.y - CenterY)

\* Ring i is visible and the moved ball is within its collision band.
InBand(i) ==
  /\ rings[i].visible
  /\ inCollisionZone(rings[i], Moved, MovedDist)

\* The moved ball crossed into ring i's band in this sub-step.
Entered(i) == enteredCollisionZone(rings[i], Moved, PrevDist, MovedDist)

\* No ring before ring i bounces the ball or lets it through in this sub-step.
FirstToInteract(i) ==
  \A j \in 1..(i - 1) :
    /\ ~Bounces(rings[j], Moved, PrevDist, MovedDist, MovedTheta)
    /\ ~PassesThrough(rings[j], Moved, PrevDist, MovedDist, MovedTheta)

\* The moved ball's angle from ring i's gap centre, in [0, 2 Pi).
GapAngle(i) == (MovedTheta - rings[i].angle) % TwoPi

\* The sub-step consumed ring i: it is invisible, particles were spawned and
\* the ball's velocity is as before.
PassedThroughRing(i) ==
  /\ ~rings'[i].visible
  /\ Particles' > Particles
  /\ ball'.speed = ball.speed
  /\ ball'.dir = ball.dir

\* C12 as stated: a ball on the gap centre of a visible ring, within its band,
\* that ring being the first to interact, passes through, whether or not it
\* entered the band in this sub-step.
C12_GapCentrePasses ==
  [][frame' = frame + 1 =>
       \A i \in DOMAIN rings :
         (InBand(i) /\ GapAngle(i) = 0 /\ FirstToInteract(i))
           => PassedThroughRing(i)]_vars

\* C12, amended: a ball on the gap centre of a visible ring, within its band,
\* that entered the band in this sub-step, that ring being the first to
\* interact, passes through: the ring becomes invisible, particles spawn and
\* the velocity is not reflected.
C12_GapCentrePassesOnEntry ==
  [][frame' = frame + 1 =>
       \A i \in DOMAIN rings :
         (InBand(i) /\ Entered(i) /\ GapAngle(i) = 0 /\ FirstToInteract(i))
           => PassedThroughRing(i)]_vars

\* C12's case: a sub-step consumed a ring whose gap centre the ball was on.
C12_Witness ==
  /\ last.passed
  /\ \E i \in DOMAIN rings :
        /\ rings[i].id = last.hit
        /\ ~rings[i].visible
        /\ (Atan2(ball.y - CenterY, ball.x - CenterX) - rings[i].angle) % TwoPi = 0
        /\ inCollisionZone(rings[i], ball, Hypot(ball.x - CenterX, ball.y - CenterY))
  /\ Particles > 0

\* The sign of the velocity's component along the radial normal at the moved
\* ball's position.
RadialSign(b) ==
  LET c == Cos(b.dir - MovedTheta)
  IN  IF c > 0 THEN 1 ELSE IF c < 0 THEN -1 ELSE 0

\* C13: a ball exactly opposite the gap of a visible ring, within its band,
\* that ring being the first to interact, bounces and never passes through:
\* the ring stays visible, no particle spawns, and the velocity's component
\* along the radial normal changes sign.
C13_OppositeGapBounces ==
  [][frame' = frame + 1 =>
       \A i \in DOMAIN rings :
         (InBand(i) /\ GapAngle(i) = Pi /\ FirstToInteract(i))
           => /\ rings'[i].visible
              /\ Particles' = Particles
              /\ RadialSign(ball') = -RadialSign(ball)
              /\ RadialSign(ball) # 0]_vars

\* The moved ball is in range of ring i: the ring is visible and the ball is
\* in its band or crossed into it in this sub-step.
InRange(i) ==
  /\ rings[i].visible
  /\ InBand(i) \/ Entered(i)

\* The moved ball's angle from ring i's gap centre lies on the ring's solid
\* arc.
OnSolidArc(i) ==
  /\ GapAngle(i) >= rings[i].holeSize \div 2
  /\ GapAngle(i) <= TwoPi - rings[i].holeSize \div 2

\* The sub-step bounced the ball off ring i: the ring stays visible and no
\* particle spawns.
BouncedOffRing(i) ==
  /\ last'.bounced
  /\ last'.hit = rings[i].id
  /\ rings'[i].visible
  /\ Particles' = Particles

\* C21: every in-range ball whose angle from the gap centre lies on the
\* ring's solid arc, holeSize / 2 <= rel <= 2 Pi - holeSize / 2, bounces off
\* the ring (when that ring is the first to interact) and does not pass
\* through: the gap is no wider than the ring's own gap.
C21_SolidArcBounces ==
  [][frame' = frame + 1 =>
       \A i \in DOMAIN rings :
         (InRange(i) /\ OnSolidArc(i) /\ FirstToInteract(i)) => BouncedOffRing(i)]_vars

\* The ball's distance from the centre.
BallDist == Hypot(ball.x - CenterX, ball.y - CenterY)

\* C22: right after a bounce off a ring the ball's distance from the centre
\* is outside that ring's collision band, and the push has moved the ball
\* toward the centre when it hit from inside (dist < ring.radius), away from
\* the centre otherwise.
C22_PushedOutOfBand ==
  [][(frame' = frame + 1 /\ last'.bounced) =>
       \A i \in DOMAIN rings :
         rings[i].id = last'.hit =>
           /\ ~inCollisionZone(rings[i], ball', BallDist')
           /\ IF MovedDist < rings[i].radius
              THEN BallDist' < MovedDist
              ELSE BallDist' > MovedDist]_vars

\* The moved ball's angle from ring i's gap centre is within the gap, taken
\* as wide as the collision test takes it.
InGap(i) ==
  \/ GapAngle(i) <= solidPartStartAngle(rings[i], Moved, MovedDist)
  \/ GapAngle(i) >= solidPartEndAngle(rings[i], Moved, MovedDist)

\* The sub-step invoked the destruction effect once, at the moved ball.
EffectOnce ==
  \E rnd \in CollideDraws :
    \E effect \in {createEffect(currentConfig.destructionEffect, Moved.x, Moved.y, rnd)} :
      /\ sparkles' = sparkles \o effect.sparkles
      /\ explosions' = explosions \o effect.explosions
      /\ shockwaves' = shockwaves \o effect.shockwaves

\* C24: a ring becomes invisible only in a sub-step in which the ball crossed
\* into its band from outside the band while the ball's angle from the gap
\* centre was in the gap, and the destruction effect is invoked exactly once.
C24_ConsumedOnlyOnEntryInGap ==
  [][frame' = frame + 1 =>
       \A i \in DOMAIN rings :
         (rings[i].visible /\ ~rings'[i].visible)
           => /\ Entered(i)
              /\ ~inCollisionZone(rings[i], ball, PrevDist)
              /\ InGap(i)
              /\ EffectOnce]_vars

\* Ring i bounces the moved ball or lets it through.
Interacts(i) ==
  \/ Bounces(rings[i], Moved, PrevDist, MovedDist, MovedTheta)
  \/ PassesThrough(rings[i], Moved, PrevDist, MovedDist, MovedTheta)

\* The rings that the sub-step made invisible.
Consumed == {i \in DOMAIN rings : rings[i].visible /\ ~rings'[i].visible}

\* C25: a sub-step resolves at most one ring interaction.  The first ring in
\* sequence order that bounces the ball or lets it through is the one
\* resolved, no other ring changes, invisible rings take no part, and without
\* such a ring the ball just moves.
C25_OneInteractionPerSubStep ==
  [][frame' = frame + 1 =>
       /\ Cardinality(Consumed) + (IF last'.bounced THEN 1 ELSE 0) <= 1
       /\ \A i \in DOMAIN rings :
            /\ (Interacts(i) /\ FirstToInteract(i))
                 => /\ last'.hit = rings[i].id
                    /\ last'.bounced \/ Consumed = {i}
                    /\ \A j \in DOMAIN rings : j # i => rings'[j] = rings[j]
            /\ ~rings[i].visible
                 => /\ rings'[i] = rings[i]
                    /\ last'.hit # rings[i].id
       /\ (\A i \in DOMAIN rings : ~Interacts(i))
            => /\ rings' = rings
               /\ ball' = Moved
               /\ ~last'.bounced /\ ~last'.passed]_vars

\* C25's case: the ball passed through a ring while it was also inside the
\* band of the next ring, which it had entered in the same sub-step and
\* which is still visible.
C25_Witness ==
  /\ last.passed
  /\ \E i \in DOMAIN rings :
       /\ rings[i].id = last.hit
       /\ ~rings[i].visible
       /\ inCollisionZone(rings[i], ball, BallDist)
       /\ i + 1 \in DOMAIN rings
       /\ rings[i + 1].visible
       /\ inCollisionZone(rings[i + 1], ball, BallDist)

(* ------------------------------------------------------------------ *)
(* update and draw as two steps of a frame                             *)
(* ------------------------------------------------------------------ *)

\* Frame rates of the particle runs: at 2 frames per second only the sparkles
\* and long-lived debris outlive an update, at 3 and 5 every kind does.
ParticleRates == {2, 3, 5}

\* Values of Math.random() explored in one step by the particle runs.
ParticleDraws ==
  {[ZeroDraws EXCEPT !.energy = 999, !.bounce = 999, !.reset = 250,
                     !.ringSpeed = 500, !.sparkSpeed = 500,
                     !.debrisLife = l, !.combined = c, !.shape = s] :
     l \in {0, 999}, c \in {0, 999}, s \in {0, 999}}

\* A fresh scene with the ball in flight in the central gap, one sub-step
\* before it reaches the innermost ring on the x axis; sendFrame is about to
\* call update.
InitParticles ==
  /\ pc = "update"
  /\ argv = [input |-> TRUE, output |-> TRUE]
  /\ \E f \in ParticleRates :
       probed = [status |-> 0, parsable |-> TRUE, width |-> 400, height |-> 400,
                 num |-> f, den |-> 1,
                 duration |-> CeilDiv(1000 * MaxParticleFrames, f)]
  /\ meta = probeVideo(probed)
  /\ \E de \in DestructionEffectNames :
       currentConfig = [ringConfig |-> "aligned", destructionEffect |-> de]
  /\ \E a \in {0, 500} :
       rings = initializeRings("aligned", [ZeroDraws EXCEPT !.ringAngle = a])
  /\ \E dir \in CollideDirs : ball = OneSubStepBefore(BASE_RING_RADIUS, BALL_SPEED, dir)
  /\ sparkles = <<>>
  /\ explosions = <<>>
  /\ shockwaves = <<>>
  /\ nextId = RING_COUNT
  /\ last = NothingYet
  /\ frame = 0
  /\ encoder = "running"
  /\ encoderCode = -1
  /\ stdinBuf = 0
  /\ stdinEnded = 0
  /\ epipe = FALSE
  /\ written = <<>>
  /\ log = <<>>
  /\ exitCode = -1
  /\ drawn = <<>>
  /\ requests = [r \in Requests |-> NoRequest]

\* Line 847: update(1 / FPS).
UpdateStep ==
  /\ pc = "update"
  /\ frame < frameCount
  /\ \E rnd \in ParticleDraws :
       \E s \in {update(Running.scene, rnd)} :
           /\ rings' = s.rings
           /\ ball' = s.ball
           /\ sparkles' = s.sparkles
           /\ explosions' = s.explosions
           /\ shockwaves' = s.shockwaves
           /\ nextId' = s.nextId
           /\ last' = s.last
  /\ pc' = "draw"
  /\ UNCHANGED <<argv, requests, drawn, probed, meta, currentConfig, frame, pipe, exitCode>>

\* Line 848: draw(ctx); the frame is counted when it is drawn.
DrawStep ==
  /\ pc = "draw"
  /\ \E rnd \in ParticleDraws :
       \E s \in {draw(Running.scene, rnd)} :
           /\ rings' = s.rings
           /\ ball' = s.ball
           /\ sparkles' = s.sparkles
           /\ explosions' = s.explosions
           /\ shockwaves' = s.shockwaves
           /\ nextId' = s.nextId
           /\ last' = s.last
  /\ frame' = frame + 1
  /\ pc' = "update"
  /\ UNCHANGED <<argv, requests, drawn, probed, meta, currentConfig, pipe, exitCode>>

SpecParticles == InitParticles /\ [][UpdateStep \/ DrawStep]_vars

\* dt of update(dt), in milliseconds.
FrameTime == 1000 \div FPS

\* The particle has more than one frame time left to live.
Outlives(p) == p.life > FrameTime

\* The particles of a pool that are alive after one more update.
Survivors(pool) == SelectSeq(pool, Outlives)

\* From one update to the next: the pool after the update starts with the
\* particles that outlive it, each with FrameTime less life than before; the
\* particles behind them were spawned in this update and have lived for
\* FrameTime; and every particle of the pool has life left.
AgedBy(before, after) ==
  LET kept == Survivors(before)
  IN  /\ Len(after) >= Len(kept)
      /\ \A i \in DOMAIN after :
            /\ after[i].life > 0
            /\ IF i <= Len(kept)
               THEN /\ after[i].life = kept[i].life - FrameTime
                    /\ after[i].life < kept[i].life
                    /\ after[i].maxLife = kept[i].maxLife
                    /\ after[i].type = kept[i].type
               ELSE after[i].life = after[i].maxLife - FrameTime

\* C16: in every update step the life of every particle of the three pools
\* goes down by exactly dt, and no particle with life <= 0 is in a pool
\* after the step.
C16_LifeDecreases ==
  [][pc = "update" =>
       /\ AgedBy(sparkles, sparkles')
       /\ AgedBy(explosions, explosions')
       /\ AgedBy(shockwaves, shockwaves')]_vars

\* C16's case: after the second update the first sparkles and the flash of
\* the first explosion have aged by two frame times, and the debris of that
\* explosion has been removed: what debris there is was spawned in the
\* second update.
C16_Witness ==
  /\ pc = "draw"
  /\ frame = 1
  /\ Len(sparkles) > 0
  /\ sparkles[1].life = SPARKLE_LIFE - 2 * FrameTime
  /\ Len(explosions) > 0
  /\ explosions[1].type = "flash"
  /\ explosions[1].life = explosions[1].maxLife - 2 * FrameTime
  /\ \A i \in DOMAIN explosions :
       explosions[i].type = "debris"
         => explosions[i].life = explosions[i].maxLife - FrameTime

\* C17: a draw step leaves the rings, the ball and every field of every
\* particle of the three pools as they were.
C17_DrawIsPureRead ==
  [][pc = "draw" => UNCHANGED <<rings, ball, sparkles, explosions, shockwaves>>]_vars

(* ------------------------------------------------------------------ *)
(* The bot: processVideo (lines 13-107)                                *)
(* ------------------------------------------------------------------ *)

\* The generator's variables, which the bot's steps leave alone.
generator == <<pc, argv, probed, meta, currentConfig, scene, frame, pipe, exitCode, drawn>>

\* Exit codes of the child processes curl and node explored.
ExitCodes == {0, 1}

\* Lines 13-35, 103-117: a video or a video note arrives; processVideo
\* replies, asks Telegram for the file and spawns curl, or one of the calls
\* throws and the catch of line 103 apologises.
HandleVideo(r) ==
  /\ requests[r].stage = "none"
  /\ \E type \in {"video", "video_note"}, ok \in BOOLEAN :
       requests' = [requests EXCEPT ![r] =
         IF ok
         THEN [@ EXCEPT !.stage = "download", !.messageType = type]
         ELSE [@ EXCEPT !.stage = "done", !.messageType = type,
                        !.outcome = "handling failed"]]
  /\ UNCHANGED generator

\* Lines 38-50: curl has closed with an exit code.  With code 0 it has
\* written the input file; with another code the file may exist in part.
\* A failed download edits the message and returns; a good one spawns the
\* generator.
DownloadClose(r) ==
  /\ requests[r].stage = "download"
  /\ \E code \in ExitCodes, saved \in BOOLEAN :
       /\ code = 0 => saved
       /\ requests' = [requests EXCEPT ![r] =
            IF code # 0
            THEN [@ EXCEPT !.stage = "done", !.outcome = "download failed",
                           !.inputFile = saved]
            ELSE [@ EXCEPT !.stage = "process", !.inputFile = saved]]
  /\ UNCHANGED generator

\* Lines 56-66: the generator has closed with an exit code; ffmpeg may or may
\* not have written the output file, whatever the code.  A non-zero code
\* edits the message and returns.
ProcessorClose(r) ==
  /\ requests[r].stage = "process"
  /\ \E code \in ExitCodes, made \in BOOLEAN :
       requests' = [requests EXCEPT ![r] =
         IF code # 0
         THEN [@ EXCEPT !.stage = "done", !.outcome = "processing failed",
                        !.outputFile = made]
         ELSE [@ EXCEPT !.stage = "send", !.outputFile = made]]
  /\ UNCHANGED generator

\* Lines 83-89: fs.unlinkSync(inputFilePath); fs.unlinkSync(outputFilePath)
\* inside one try: a missing input file throws before the output file is
\* unlinked.
CleanUp(q) ==
  IF q.inputFile THEN [q EXCEPT !.inputFile = FALSE, !.outputFile = FALSE] ELSE q

\* Lines 68-94: the message is edited and the output file sent as a video or
\* a video note, then the temporary files are unlinked; when a Telegram call
\* throws or the output file cannot be read, the catch of line 91 replies
\* with an apology.
SendVideo(r) ==
  /\ requests[r].stage = "send"
  /\ \E ok \in BOOLEAN :
       requests' = [requests EXCEPT ![r] =
         IF ok /\ requests[r].outputFile
         THEN [CleanUp(@) EXCEPT !.stage = "done", !.outcome = "video sent"]
         ELSE [@ EXCEPT !.stage = "done", !.outcome = "sending failed"]]
  /\ UNCHANGED generator

\* The bot with no generator running in the model.
InitBot == Init /\ argv = [input |-> TRUE, output |-> TRUE]

BotNext ==
  \E r \in Requests :
    \/ HandleVideo(r)
    \/ DownloadClose(r)
    \/ ProcessorClose(r)
    \/ SendVideo(r)

SpecBot == InitBot /\ [][BotNext]_vars

\* The final outcomes of a request that got as far as the download.
FinalOutcomes == {"video sent", "download failed", "processing failed", "sending failed"}

\* C19: once a request has reached its final outcome (video sent, download
\* failed, overlay process exited non-zero, sending failed), its temporary
\* input and output files do not exist.
C19_TempFilesDeleted ==
  \A r \in Requests :
    requests[r].outcome \in FinalOutcomes
      => ~requests[r].inputFile /\ ~requests[r].outputFile

\* C7: after a bounce resolution the ball's speed lies in
\* [MIN_BALL_SPEED, MAX_BALL_SPEED], whatever the velocity before the bounce
\* and whatever the random draws.
C7_SpeedInRange ==
  last.bounced =>
    /\ ball.speed >= MIN_BALL_SPEED
    /\ ball.speed <= MAX_BALL_SPEED

\* C7's case: a ball at full speed bounced a second time and the clamp kept
\* it at MAX_BALL_SPEED.
C7_Witness ==
  /\ last.bounced
  /\ frame = MaxBounces
  /\ ball.speed = MAX_BALL_SPEED

====
